---- MODULE Spec2Model ----
(***************************************************************************)
(* Model of app.py: a Streamlit script that reads an uploaded spreadsheet  *)
(* of transactions, derives each customer's cohort month and each row's    *)
(* cohort index, pivots them into a table of distinct-customer counts,     *)
(* divides every row by its first column, renders the result and, on a     *)
(* button press, sends a summary to a hosted text-generation model.        *)
(*                                                                         *)
(* Streamlit executes the whole script from the top on every user          *)
(* interaction.  One such execution is a "run"; pc is the position of the  *)
(* current run in the script, named after the line it is about to execute. *)
(***************************************************************************)
EXTENDS Integers, Sequences, FiniteSets, TLC

\* Largest number of rows of a spreadsheet handed to the retention
\* computation in SpecCalc (well-formed rows only).
MaxRows == 5

\* Largest number of rows of a spreadsheet uploaded in Spec (rows of any kind).
MaxFileRows == 2

(***************************************************************************)
(* Spreadsheet cells                                                       *)
(***************************************************************************)

\* A date cell: a timestamp, a blank cell (read as NaT), or a text cell
\* that is not a date.
Ts(y, m, d) == [kind |-> "ts", y |-> y, m |-> m, d |-> d]
NaT == [kind |-> "NaT", y |-> 0, m |-> 0, d |-> 0]
BadText == [kind |-> "str", y |-> 0, m |-> 0, d |-> 0]

\* A blank Customer_ID cell is read as NaN.
NaN == "NaN"

Row(c, dt) == [Customer_ID |-> c, Date |-> dt]

\* The rows spreadsheets are made of: customer A on the last day of 2023,
\* the first and last day of January 2024 and the first of February;
\* customer B on the first of January and of February; customer C on the
\* first of January.
WellFormedRows ==
    {Row("A", dt) : dt \in {Ts(2023, 12, 31), Ts(2024, 1, 1), Ts(2024, 1, 31), Ts(2024, 2, 1)}}
      \cup {Row("B", dt) : dt \in {Ts(2024, 1, 1), Ts(2024, 2, 1)}}
      \cup {Row("C", Ts(2024, 1, 1))}

MalformedRows == {Row(NaN, Ts(2024, 1, 1)), Row("A", NaT), Row("A", BadText)}

FileRows == {Row(c, dt) : c \in {"A", "B"}, dt \in {Ts(2023, 12, 31), Ts(2024, 1, 1), Ts(2024, 2, 1)}}
              \cup MalformedRows

SeqsUpTo(S, n) == UNION {[1..k -> S] : k \in 0..n}

\* uploaded_file is None when the uploader holds no file.
NoFile == [present |-> FALSE, rows |-> <<>>]
File(rows) == [present |-> TRUE, rows |-> rows]

(***************************************************************************)
(* Dates and periods                                                       *)
(***************************************************************************)

\* Chronological order of two timestamps.
TsKey(t) == t.y * 10000 + t.m * 100 + t.d

\* pd.to_datetime on the Date column: raises on a cell that is no date,
\* keeps blanks as NaT.
ToDatetimeRaises(rows) == \E r \in 1..Len(rows) : rows[r].Date.kind = "str"

\* A monthly period is the ordinal of its month counted from January 1970;
\* nat marks the missing period.
Period(o) == [nat |-> FALSE, ord |-> o]
NaTPeriod == [nat |-> TRUE, ord |-> 0]

\* .dt.to_period('M')
ToPeriodNoYear(t) == IF t.kind = "ts" THEN Period(t.m - 1) ELSE NaTPeriod

ToPeriod(t) == IF t.kind = "ts" THEN Period((t.y - 1970) * 12 + (t.m - 1)) ELSE NaTPeriod

\* Year and month of a period.
PeriodYear(o) == 1970 + (o \div 12)
PeriodMonth(o) == (o % 12) + 1

\* groupby('Customer_ID')['Date'].transform(...): the rows of the group of
\* row r.  Rows with a missing key belong to no group.
GroupRows(rows, r) ==
    IF rows[r].Customer_ID = NaN THEN {}
    ELSE {q \in 1..Len(rows) : rows[q].Customer_ID = rows[r].Customer_ID
                                /\ rows[q].Date.kind = "ts"}

\* transform('first'): the first non-missing date of the group in row order.
TransformFirst(rows, r) ==
    LET g == GroupRows(rows, r)
    IN  IF g = {} THEN NaT
        ELSE rows[CHOOSE q \in g : \A p \in g : q <= p].Date

\* transform('min'): the earliest non-missing date of the group.
TransformMin(rows, r) ==
    LET g == GroupRows(rows, r)
    IN  IF g = {} THEN NaT
        ELSE rows[CHOOSE q \in g : \A p \in g : TsKey(rows[q].Date) <= TsKey(rows[p].Date)].Date

\* Lines 35 and 38: the CohortMonth and PurchaseMonth columns.
CohortMonthCol(rows) == [r \in 1..Len(rows) |-> ToPeriod(TransformMin(rows, r))]
PurchaseMonthCol(rows) == [r \in 1..Len(rows) |-> ToPeriod(rows[r].Date)]

\* Line 39: Period - Period is an offset of n months, NaT when either side
\* is missing; attrgetter('n') raises AttributeError on NaT.
IndexRaisesNever(rows) == FALSE

IndexRaises(rows) ==
    \E r \in 1..Len(rows) :
        ToPeriod(TransformMin(rows, r)).nat \/ ToPeriod(rows[r].Date).nat

\* sales_data after lines 32-39, when nothing raised.
Derive(rows) ==
    LET cm == CohortMonthCol(rows)
        pm == PurchaseMonthCol(rows)
        data == [r \in 1..Len(rows) |->
                    [Customer_ID |-> rows[r].Customer_ID,
                     Date |-> rows[r].Date,
                     CohortMonth |-> cm[r].ord,
                     PurchaseMonth |-> pm[r].ord,
                     CohortIndex |-> pm[r].ord - cm[r].ord]]
    IN  SubSeq(data, 1, Len(rows))

(***************************************************************************)
(* Frames                                                                  *)
(***************************************************************************)

\* A cell of a frame: a number num/den or NaN/inf.
Num(n, d) == [kind |-> "num", num |-> n, den |-> d]
NaNCell == [kind |-> "nan", num |-> 0, den |-> 0]
InfCell == [kind |-> "inf", num |-> 0, den |-> 0]
One == Num(1, 1)

RECURSIVE GCD(_, _)
GCD(a, b) == IF b = 0 THEN a ELSE GCD(b, a % b)

\* Elementwise float division of two cells.
Divide(a, b) ==
    IF a.kind # "num" \/ b.kind # "num" THEN NaNCell
    ELSE IF b.num = 0 THEN (IF a.num = 0 THEN NaNCell ELSE InfCell)
    ELSE LET g == GCD(a.num, b.num) IN Num(a.num \div g, b.num \div g)

\* The labels of a set in the order pivot_table puts them: ascending.
RECURSIVE SortedSeqDesc(_)
SortedSeqDesc(S) ==
    IF S = {} THEN <<>>
    ELSE LET hi == CHOOSE x \in S : \A y \in S : x >= y
         IN  <<hi>> \o SortedSeqDesc(S \ {hi})

RECURSIVE SortedSeq(_)
SortedSeq(S) ==
    IF S = {} THEN <<>>
    ELSE LET lo == CHOOSE x \in S : \A y \in S : x <= y
         IN  <<lo>> \o SortedSeq(S \ {lo})

Range(s) == {s[k] : k \in 1..Len(s)}

EmptyFrame == [index |-> <<>>, columns |-> <<>>, cells |-> <<>>]

\* aggfunc='count': the number of rows of the group.
AggCount(data, c, i) ==
    Cardinality({r \in 1..Len(data) : data[r].CohortMonth = c /\ data[r].CohortIndex = i})

\* aggfunc='nunique': the number of distinct Customer_ID values of the group.
AggNunique(data, c, i) ==
    Cardinality({data[r].Customer_ID : r \in {q \in 1..Len(data) :
                     data[q].CohortMonth = c /\ data[q].CohortIndex = i}})

\* The cell of a pair: its count, NaN for a pair that has no row.
CountCellZero(n) == Num(n, 1)

CountCell(n) == IF n = 0 THEN NaNCell ELSE Num(n, 1)

\* The row labels of the pivot: the observed cohort months, sorted.
PivotIndexUnsorted(data) ==
    LET firsts == {r \in 1..Len(data) : \A q \in 1..(r - 1) : data[q].CohortMonth # data[r].CohortMonth}
        ord == SortedSeq(firsts)
    IN  [k \in 1..Len(ord) |-> data[ord[k]].CohortMonth]

PivotIndex(data) == SortedSeq({data[r].CohortMonth : r \in 1..Len(data)})

\* The column labels of the pivot: the observed cohort indices, sorted.
PivotColumns(data) == SortedSeq({data[r].CohortIndex : r \in 1..Len(data)})

\* Lines 42-47: pivot_table(index='CohortMonth', columns='CohortIndex',
\* values='Customer_ID', aggfunc='nunique').  A pair with no row is NaN.
PivotTable(data) ==
    LET idx == PivotIndex(data)
        col == PivotColumns(data)
    IN  [index |-> idx,
         columns |-> col,
         cells |-> [p \in Range(idx) \X Range(col) |->
                      CountCell(AggNunique(data, p[1], p[2]))]]

\* Line 50: cohort_counts.iloc[:, 0] raises IndexError on a frame with
\* no column.
IlocRaises(frame) == Len(frame.columns) = 0

CohortSizesLast(frame) ==
    [c \in Range(frame.index) |-> frame.cells[<<c, frame.columns[Len(frame.columns)]>>]]

CohortSizes(frame) ==
    [c \in Range(frame.index) |-> frame.cells[<<c, frame.columns[1]>>]]

\* Line 51: cohort_counts.divide(cohort_sizes, axis=0)
RetentionRate(frame) ==
    LET sizes == CohortSizes(frame)
    IN  [index |-> frame.index,
         columns |-> frame.columns,
         cells |-> [p \in DOMAIN frame.cells |-> Divide(frame.cells[p], sizes[p[1]])]]

\* Lines 29-51 as a whole: the exception raised, if any, and the values
\* bound when none is.
Ok(data, counts, rate) ==
    [err |-> "none", sales_data |-> data, cohort_counts |-> counts, retention_rate |-> rate]
Raised(e) ==
    [err |-> e, sales_data |-> <<>>, cohort_counts |-> EmptyFrame, retention_rate |-> EmptyFrame]

Compute(rows) ==
    IF ToDatetimeRaises(rows) THEN Raised("ValueError")
    ELSE IF IndexRaises(rows) THEN Raised("AttributeError")
    ELSE LET data == Derive(rows)
             counts == PivotTable(data)
         IN  IF IlocRaises(counts) THEN Raised("IndexError")
             ELSE Ok(data, counts, RetentionRate(counts))

(***************************************************************************)
(* The text summary                                                        *)
(***************************************************************************)

\* A float printed with six decimals, in millionths, rounded half up;
\* NaN and inf print as themselves (-1 and -2 here).
FormatCell(c) ==
    IF c.kind = "nan" THEN -1
    ELSE IF c.kind = "inf" THEN -2
    ELSE (2 * 1000000 * c.num + c.den) \div (2 * c.den)

\* retention_rate.to_string(): the header of column labels and one line
\* per row, its label followed by its printed cells.
FrameToString(frame) ==
    [header |-> frame.columns,
     lines |-> [k \in 1..Len(frame.index) |->
                  [label |-> <<PeriodYear(frame.index[k]), PeriodMonth(frame.index[k])>>,
                   cells |-> [j \in 1..Len(frame.columns) |->
                                FormatCell(frame.cells[<<frame.index[k], frame.columns[j]>>])]]]]

NoSummary == [bound |-> FALSE, cohorts |-> 0, breakdown |-> [header |-> <<>>, lines |-> <<>>]]

\* len(cohort_counts): the number of rows of the frame.
FrameLen(frame) == Len(frame.index)

\* Lines 68-73
CohortSummary(counts, rate) ==
    [bound |-> TRUE, cohorts |-> FrameLen(counts), breakdown |-> FrameToString(rate)]

(***************************************************************************)
(* The script                                                              *)
(***************************************************************************)

\* The values os.getenv("OPENAI_API_KEY") can return: None when the
\* variable is not set, the empty string, or a key.
Unset == "<None>"
KeyValues == {Unset, "", "sk-key"}

\* OPENAI_API_KEY before line 13 has run.
Unbound == "<unbound>"

\* Line 16: `not OPENAI_API_KEY`
KeyMissingNoneOnly(k) == k = Unset

KeyMissing(k) == k = Unset \/ k = ""

DefaultPrompt == "Analyze the cohort retention data and provide key FP&A insights."

NoRequest == [sent |-> FALSE, model |-> "", summary |-> NoSummary, prompt |-> ""]

VARIABLES
    env_key,          \* OPENAI_API_KEY in the environment / .env file
    uploaded_file,    \* the file held by the uploader widget
    button,           \* the button was clicked to trigger this run
    pc,               \* position of the current run
    OPENAI_API_KEY,   \* line 13
    shown,            \* what this run has put on the page
    file_read,        \* pd.read_excel has run in this run
    sales_data,       \* lines 29-39
    cohort_counts,    \* line 42
    retention_rate,   \* line 51
    err,              \* the uncaught exception that ended this run
    cohort_summary,   \* line 68
    client,           \* line 88
    request           \* the chat completion request issued by this run

vars == <<env_key, uploaded_file, button, pc, OPENAI_API_KEY, shown, file_read,
          sales_data, cohort_counts, retention_rate, err, cohort_summary, client, request>>

session == <<env_key, uploaded_file, button>>
tables == <<sales_data, cohort_counts, retention_rate>>

RunEnded == pc \in {"done", "stopped", "crashed"}

\* The script starts over from its first line.
StartRun ==
    /\ pc' = "line12"
    /\ OPENAI_API_KEY' = Unbound
    /\ shown' = {}
    /\ file_read' = FALSE
    /\ sales_data' = <<>>
    /\ cohort_counts' = EmptyFrame
    /\ retention_rate' = EmptyFrame
    /\ err' = "none"
    /\ cohort_summary' = NoSummary
    /\ client' = FALSE
    /\ request' = NoRequest

\* The page is opened: a new session with empty widgets.
Init ==
    /\ env_key \in KeyValues
    /\ uploaded_file = NoFile
    /\ button = FALSE
    /\ pc = "line12"
    /\ OPENAI_API_KEY = Unbound
    /\ shown = {}
    /\ file_read = FALSE
    /\ sales_data = <<>>
    /\ cohort_counts = EmptyFrame
    /\ retention_rate = EmptyFrame
    /\ err = "none"
    /\ cohort_summary = NoSummary
    /\ client = FALSE
    /\ request = NoRequest

\* Lines 12-18: load the key; without one, show the error and stop.
LoadKey ==
    /\ pc = "line12"
    /\ OPENAI_API_KEY' = env_key
    /\ IF KeyMissing(env_key)
       THEN /\ shown' = shown \cup {"error_api_key"}
            /\ pc' = "stopped"
       ELSE /\ shown' = shown
            /\ pc' = "line21"
    /\ UNCHANGED <<session, tables, file_read, err, cohort_summary, client, request>>

\* Lines 21-27: title, instructions and the uploader widget.
Uploader ==
    /\ pc = "line21"
    /\ shown' = shown \cup {"title", "uploader"}
    /\ pc' = IF uploaded_file.present THEN "line29" ELSE "done"
    /\ UNCHANGED <<session, tables, OPENAI_API_KEY, file_read, err, cohort_summary, client, request>>

\* Lines 29-51: read the file and compute the retention tables.  An
\* exception is not caught: the run ends showing it.
ComputeStep ==
    /\ pc = "line29"
    /\ file_read' = TRUE
    /\ \E r \in {Compute(uploaded_file.rows)} :
           /\ err' = r.err
           /\ sales_data' = r.sales_data
           /\ cohort_counts' = r.cohort_counts
           /\ retention_rate' = r.retention_rate
           /\ IF r.err = "none"
              THEN pc' = "line54" /\ shown' = shown
              ELSE pc' = "crashed" /\ shown' = shown \cup {"exception"}
    /\ UNCHANGED <<session, OPENAI_API_KEY, cohort_summary, client, request>>

\* Lines 54-82: preview, heatmap, summary text and the prompt box.
Render ==
    /\ pc = "line54"
    /\ shown' = shown \cup {"preview", "heatmap", "prompt_box"}
    /\ cohort_summary' = CohortSummary(cohort_counts, retention_rate)
    /\ pc' = "line85"
    /\ UNCHANGED <<session, tables, OPENAI_API_KEY, file_read, err, client, request>>

\* Line 85: the button; its body runs only in the run its click triggered.
Button ==
    /\ pc = "line85"
    /\ shown' = shown \cup {"button"}
    /\ pc' = IF button THEN "line88" ELSE "done"
    /\ UNCHANGED <<session, tables, OPENAI_API_KEY, file_read, err, cohort_summary, client, request>>

\* Line 88: OpenAI(OPENAI_API_KEY) passes the key positionally; the
\* installed client library either accepts it or raises TypeError.
ClientInit ==
    /\ pc = "line88"
    /\ \/ /\ client' = TRUE
          /\ pc' = "line91"
          /\ UNCHANGED <<err, shown>>
       \/ /\ client' = FALSE
          /\ err' = "TypeError"
          /\ pc' = "crashed"
          /\ shown' = shown \cup {"exception"}
    /\ UNCHANGED <<session, tables, OPENAI_API_KEY, file_read, cohort_summary, request>>

\* Lines 91-99: the request is sent; the service answers or the call raises.
CreateCompletion ==
    /\ pc = "line91"
    /\ request' = [sent |-> TRUE, model |-> "gpt-4o",
                   summary |-> cohort_summary, prompt |-> DefaultPrompt]
    /\ \/ /\ pc' = "line102"
          /\ UNCHANGED <<err, shown>>
       \/ /\ err' = "APIError"
          /\ pc' = "crashed"
          /\ shown' = shown \cup {"exception"}
    /\ UNCHANGED <<session, tables, OPENAI_API_KEY, file_read, cohort_summary, client>>

\* Lines 102-106: the commentary is displayed.
ShowCommentary ==
    /\ pc = "line102"
    /\ shown' = shown \cup {"insights"}
    /\ pc' = "done"
    /\ UNCHANGED <<session, tables, OPENAI_API_KEY, file_read, err, cohort_summary, client, request>>

\* The user picks a file in the uploader of the page the last run drew.
Upload ==
    /\ RunEnded
    /\ "uploader" \in shown
    /\ \E rows \in SeqsUpTo(FileRows, MaxFileRows) : uploaded_file' = File(rows)
    /\ button' = FALSE
    /\ StartRun
    /\ UNCHANGED env_key

\* The user removes the file from the uploader.
RemoveFile ==
    /\ RunEnded
    /\ "uploader" \in shown
    /\ uploaded_file.present
    /\ uploaded_file' = NoFile
    /\ button' = FALSE
    /\ StartRun
    /\ UNCHANGED env_key

\* The user clicks the commentary button of the page the last run drew.
ClickButton ==
    /\ RunEnded
    /\ "button" \in shown
    /\ button' = TRUE
    /\ StartRun
    /\ UNCHANGED <<env_key, uploaded_file>>

\* The key is set, changed or removed where the app is deployed and the page
\* is rerun in the same session: the run reads the key again at line 13.
SetKey ==
    /\ RunEnded
    /\ \E k \in KeyValues \ {env_key} : env_key' = k
    /\ button' = FALSE
    /\ StartRun
    /\ UNCHANGED uploaded_file

Next ==
    \/ LoadKey
    \/ Uploader
    \/ ComputeStep
    \/ Render
    \/ Button
    \/ ClientInit
    \/ CreateCompletion
    \/ ShowCommentary
    \/ Upload
    \/ RemoveFile
    \/ ClickButton
    \/ SetKey

Spec == Init /\ [][Next]_vars

(***************************************************************************)
(* The retention computation alone: a run that has reached line 29 with a  *)
(* well-formed spreadsheet in the uploader.                                *)
(***************************************************************************)

InitCalc ==
    /\ env_key = "sk-key"
    /\ \E rows \in SeqsUpTo(WellFormedRows, MaxRows) : uploaded_file = File(rows)
    /\ button = FALSE
    /\ pc = "line29"
    /\ OPENAI_API_KEY = "sk-key"
    /\ shown = {"title", "uploader"}
    /\ file_read = FALSE
    /\ sales_data = <<>>
    /\ cohort_counts = EmptyFrame
    /\ retention_rate = EmptyFrame
    /\ err = "none"
    /\ cohort_summary = NoSummary
    /\ client = FALSE
    /\ request = NoRequest

NextCalc ==
    \/ ComputeStep
    \/ Render

SpecCalc == InitCalc /\ [][NextCalc]_vars

(***************************************************************************)
(* Properties                                                              *)
(***************************************************************************)

\* The spreadsheet of the current run.
Input == uploaded_file.rows

\* Every row has a customer identifier and a date.
WellFormed(t) == \A r \in 1..Len(t) : t[r].Customer_ID # NaN /\ t[r].Date.kind = "ts"

\* The current run has read the file and computed its tables.
TableBuilt == file_read /\ err = "none"

\* Year*12 + month of a timestamp and of a period.
MonthNumber(t) == t.y * 12 + t.m
PeriodNumber(o) == PeriodYear(o) * 12 + PeriodMonth(o)

\* The customers of a table, and the month of the earliest transaction of one.
CustomersOf(t) == {t[r].Customer_ID : r \in 1..Len(t)}
FirstMonth(t, cust) ==
    LET own == {r \in 1..Len(t) : t[r].Customer_ID = cust}
        first == CHOOSE q \in own : \A p \in own : TsKey(t[q].Date) <= TsKey(t[p].Date)
    IN  MonthNumber(t[first].Date)

\* The customers whose first month is month number c and who have a
\* transaction i months later.
ActiveCustomers(t, c, i) ==
    {cust \in CustomersOf(t) :
        /\ FirstMonth(t, cust) = c
        /\ \E r \in 1..Len(t) : t[r].Customer_ID = cust /\ MonthNumber(t[r].Date) - c = i}

StrictlyAscending(s) == \A k \in 1..(Len(s) - 1) : s[k] < s[k + 1]

\* C1: for a non-empty well-formed table the tables are built, the first
\* column of the count table is cohort index 0, no row has an absent or zero
\* count there, and every row of the rate table is exactly 1 at index 0.
C1_BaselineIsOne ==
    (file_read /\ WellFormed(Input) /\ Len(Input) > 0) =>
        /\ err = "none"
        /\ Len(cohort_counts.index) > 0
        /\ cohort_counts.columns[1] = 0
        /\ retention_rate.columns[1] = 0
        /\ \A c \in Range(cohort_counts.index) :
              /\ cohort_counts.cells[<<c, 0>>].kind = "num"
              /\ cohort_counts.cells[<<c, 0>>].num > 0
              /\ retention_rate.cells[<<c, 0>>] = One

\* Two cohorts, one of them with two customers, and a second column with an
\* absent cell.
C1_Witness ==
    /\ TableBuilt
    /\ Len(cohort_counts.index) >= 2
    /\ Len(cohort_counts.columns) >= 2
    /\ \E c \in Range(cohort_counts.index) : cohort_counts.cells[<<c, 0>>].num >= 2
    /\ \E p \in DOMAIN cohort_counts.cells : cohort_counts.cells[p].kind = "nan"

\* C2: every defined count is at most the index-0 count of its row, and no
\* defined rate exceeds 1.
C2_CountBound ==
    (TableBuilt /\ WellFormed(Input)) =>
        \A p \in DOMAIN cohort_counts.cells :
            cohort_counts.cells[p].kind = "num" =>
                /\ cohort_counts.cells[p].num <= cohort_counts.cells[<<p[1], 0>>].num
                /\ retention_rate.cells[p].kind = "num"
                /\ retention_rate.cells[p].num <= retention_rate.cells[p].den

\* A customer who skips a month and comes back, with that later transaction
\* entered twice.
C2_Witness ==
    /\ TableBuilt
    /\ \E r, q, z \in 1..Len(sales_data) :
          /\ sales_data[r].CohortIndex = 0
          /\ q # z
          /\ sales_data[q] = sales_data[z]
          /\ sales_data[q].Customer_ID = sales_data[r].Customer_ID
          /\ sales_data[q].CohortIndex = 2
          /\ \A w \in 1..Len(sales_data) :
                sales_data[w].Customer_ID = sales_data[r].Customer_ID
                    => sales_data[w].CohortIndex # 1

\* C3: a cell of a pair with activity is the number of distinct customers
\* of the cohort active at the index, and its rate is that number over the
\* cohort's index-0 count; a cell of a pair without activity is absent.
\* Every pair with activity is a cell of the table.
C3_DistinctCounts ==
    (TableBuilt /\ WellFormed(Input)) =>
        /\ \A r \in 1..Len(Input) :
              \E c \in Range(cohort_counts.index) :
                  /\ PeriodNumber(c) = FirstMonth(Input, Input[r].Customer_ID)
                  /\ (MonthNumber(Input[r].Date) - PeriodNumber(c)) \in Range(cohort_counts.columns)
        /\ DOMAIN retention_rate.cells = DOMAIN cohort_counts.cells
        /\ \A p \in DOMAIN cohort_counts.cells :
              LET active == Cardinality(ActiveCustomers(Input, PeriodNumber(p[1]), p[2]))
                  size == Cardinality(ActiveCustomers(Input, PeriodNumber(p[1]), 0))
              IN  IF active > 0
                  THEN /\ cohort_counts.cells[p] = Num(active, 1)
                       /\ retention_rate.cells[p].kind = "num"
                       /\ retention_rate.cells[p].num * size = retention_rate.cells[p].den * active
                  ELSE /\ cohort_counts.cells[p] = NaNCell
                       /\ retention_rate.cells[p] = NaNCell

\* Three customers share a cohort and two of them come back the next month:
\* the rate is 2/3.
C3_Witness ==
    /\ TableBuilt
    /\ \E p \in DOMAIN retention_rate.cells :
          /\ retention_rate.cells[p] = Num(2, 3)
          /\ cohort_counts.cells[<<p[1], 0>>] = Num(3, 1)
    /\ Len(sales_data) = 5

\* An absent cell next to a defined one, with a repeated transaction.
C3_WitnessAbsent ==
    /\ TableBuilt
    /\ \E p \in DOMAIN retention_rate.cells : retention_rate.cells[p] = NaNCell
    /\ \E r, q \in 1..Len(Input) : r # q /\ Input[r] = Input[q]

\* C4: all rows of a customer carry the same CohortMonth, the year and
\* month of the customer's earliest transaction in the whole table.
C4_CohortOfCustomer ==
    (TableBuilt /\ WellFormed(Input)) =>
        /\ Len(sales_data) = Len(Input)
        /\ \A r, q \in 1..Len(sales_data) :
              sales_data[r].Customer_ID = sales_data[q].Customer_ID
                  => sales_data[r].CohortMonth = sales_data[q].CohortMonth
        /\ \A r \in 1..Len(sales_data) :
              /\ sales_data[r].Customer_ID = Input[r].Customer_ID
              /\ PeriodNumber(sales_data[r].CohortMonth) = FirstMonth(Input, Input[r].Customer_ID)

\* A customer with three transactions, two of them on the same date, whose
\* earliest one is not the first row of the customer.
C4_Witness ==
    /\ TableBuilt
    /\ \E r, q, z \in 1..Len(Input) :
          /\ r < q /\ q < z
          /\ Input[r].Customer_ID = Input[q].Customer_ID
          /\ Input[q].Customer_ID = Input[z].Customer_ID
          /\ Input[r].Date = Input[z].Date
          /\ TsKey(Input[q].Date) < TsKey(Input[r].Date)
          /\ MonthNumber(Input[q].Date) < MonthNumber(Input[r].Date)

\* C5: the cohort index of a row is the purchase year*12 + month minus the
\* cohort year*12 + month, is never negative, and is 0 exactly for the rows
\* in the cohort month of their customer.
C5_WholeMonths ==
    (TableBuilt /\ WellFormed(Input)) =>
        \A r \in 1..Len(sales_data) :
            LET purchase == Input[r].Date
                cohort == FirstMonth(Input, Input[r].Customer_ID)
            IN  /\ sales_data[r].CohortIndex = (purchase.y * 12 + purchase.m) - cohort
                /\ sales_data[r].CohortIndex >= 0
                /\ (sales_data[r].CohortIndex = 0) <=> (MonthNumber(purchase) = cohort)

\* A customer with transactions on 31 December, 1 January (one day later,
\* index 1) and 31 January (thirty days after that, index 1 again), and a
\* row of index 2.
C5_Witness ==
    /\ TableBuilt
    /\ \E r, q, z \in 1..Len(sales_data) :
          /\ sales_data[r].Date = Ts(2023, 12, 31) /\ sales_data[r].CohortIndex = 0
          /\ sales_data[q].Date = Ts(2024, 1, 1) /\ sales_data[q].CohortIndex = 1
          /\ sales_data[z].Date = Ts(2024, 1, 31) /\ sales_data[z].CohortIndex = 1
          /\ sales_data[r].Customer_ID = sales_data[q].Customer_ID
    /\ \E r \in 1..Len(sales_data) : sales_data[r].CohortIndex = 2

\* The first two rows exchanged, and the first row moved to the end.
SwapFirst(t) == <<t[2], t[1]>> \o SubSeq(t, 3, Len(t))
Rotate(t) == Tail(t) \o <<Head(t)>>

\* C6: the outcome of the computation on the table with its first two rows
\* exchanged, and on the table with its first row moved to the end, is the
\* outcome on the table itself: the same error or the same count and rate
\* tables.  (The two reorderings generate every permutation of the rows,
\* and every table of a given length is an input.)
C6_OrderIndependent ==
    (file_read /\ Len(Input) >= 2) =>
        \A other \in {Compute(SwapFirst(Input)), Compute(Rotate(Input))} :
            /\ other.err = err
            /\ other.retention_rate = retention_rate
            /\ other.cohort_counts = cohort_counts

\* Two cohorts, entered latest first, with an absent cell.
C6_Witness ==
    /\ TableBuilt
    /\ Len(retention_rate.index) >= 2
    /\ \E r \in 1..(Len(sales_data) - 1) :
          sales_data[r].CohortMonth > sales_data[r + 1].CohortMonth
    /\ \E p \in DOMAIN retention_rate.cells : retention_rate.cells[p] = NaNCell

\* C7: one row per distinct cohort month, rows and columns strictly
\* ascending, first column 0, and the summary reports the number of
\* distinct cohort months.
C7_Layout ==
    (file_read /\ WellFormed(Input) /\ Len(Input) > 0) =>
        LET months == {FirstMonth(Input, cust) : cust \in CustomersOf(Input)}
        IN  /\ err = "none"
            /\ {PeriodNumber(c) : c \in Range(retention_rate.index)} = months
            /\ Len(retention_rate.index) = Cardinality(months)
            /\ StrictlyAscending(retention_rate.index)
            /\ StrictlyAscending(retention_rate.columns)
            /\ retention_rate.columns[1] = 0
            /\ cohort_counts.index = retention_rate.index
            /\ cohort_counts.columns = retention_rate.columns
            /\ cohort_summary.bound => cohort_summary.cohorts = Cardinality(months)
            /\ pc \in {"line85", "line88", "line91", "line102", "done"} => cohort_summary.bound

\* Three cohorts and three columns, after the summary is written.
C7_Witness ==
    /\ TableBuilt
    /\ cohort_summary.bound
    /\ cohort_summary.cohorts = 3
    /\ Len(retention_rate.columns) = 3
    /\ Len(cohort_summary.breakdown.lines) = 3

\* The current run has drawn nothing of the retention tables.
NoTable ==
    /\ sales_data = <<>>
    /\ cohort_counts = EmptyFrame
    /\ retention_rate = EmptyFrame
    /\ ~cohort_summary.bound
    /\ ~request.sent
    /\ shown \cap {"preview", "heatmap", "prompt_box", "button", "insights"} = {}

\* C8 as stated: a run that has read a file with a row lacking its customer
\* identifier or its date has failed with MalformedInputError and has no
\* table.
C8_AsStated ==
    (file_read /\ ~WellFormed(Input)) =>
        /\ pc = "crashed"
        /\ err = "MalformedInputError"
        /\ NoTable

\* C8 amended: such a run has ended on the uncaught exception of the
\* library call that met the row, ValueError from the date conversion when
\* a date is text that is no date and AttributeError from the extraction of
\* the month offset otherwise; the exception is shown, and no table is
\* computed, rendered or summarised from the remaining rows.
C8_AbortsOnMalformedRow ==
    (file_read /\ ~WellFormed(Input)) =>
        /\ pc = "crashed"
        /\ err = (IF \E r \in 1..Len(Input) : Input[r].Date.kind = "str"
                  THEN "ValueError" ELSE "AttributeError")
        /\ "exception" \in shown
        /\ NoTable

\* A file with a well-formed row and a row without customer identifier.
C8_Witness ==
    /\ pc = "crashed"
    /\ err = "AttributeError"
    /\ Len(Input) = 2
    /\ \E r, q \in 1..Len(Input) :
          /\ Input[r].Customer_ID = NaN
          /\ Input[q].Customer_ID # NaN /\ Input[q].Date.kind = "ts"

\* C9: a run that has read a file without rows either has built an empty
\* table without failing, or has failed with EmptyInputError.
C9_EmptyInput ==
    (file_read /\ Len(Input) = 0) =>
        \/ err = "EmptyInputError"
        \/ /\ err = "none"
           /\ pc # "crashed"
           /\ Len(retention_rate.index) = 0

\* C10: a run that has found the key missing or empty has shown the error
\* and stopped, having read no file, built or drawn no table and created no
\* client; and a run that has sent a request has a key, an uploaded file,
\* the tables of that file computed without error, and the button pressed.
C10_KeyGate ==
    /\ (OPENAI_API_KEY \in {Unset, ""}) =>
          /\ pc = "stopped"
          /\ shown = {"error_api_key"}
          /\ ~file_read
          /\ ~client
          /\ NoTable
    /\ (env_key \in {Unset, ""} /\ pc = "line12") => (~file_read /\ ~client /\ NoTable)
    /\ request.sent =>
          /\ OPENAI_API_KEY \notin {Unset, "", Unbound}
          /\ uploaded_file.present
          /\ button
          /\ file_read
          /\ err \in {"none", "APIError"}
          /\ Len(Input) > 0
          /\ \A built \in {Compute(Input)} :
                /\ built.err = "none"
                /\ retention_rate = built.retention_rate
          /\ request.summary.bound
          /\ "heatmap" \in shown

\* A run stopped on an empty key while the uploader holds a file.
C10_Witness ==
    /\ pc = "stopped"
    /\ OPENAI_API_KEY = ""
    /\ "error_api_key" \in shown
    /\ uploaded_file.present

\* A run that has sent its request and shown the answer.
C10_WitnessRequest ==
    /\ request.sent
    /\ "insights" \in shown
    /\ pc = "done"

====
